---- MODULE Spec2Model ----
(***************************************************************************)
(* Model of the Manager (job / worker lifecycle orchestrator) of           *)
(* nov1n/CCAssignment: StartJob, StopJob, createWorker, stopWorker,        *)
(* runCommands, runCommand and JobFromRecord.                              *)
(*                                                                         *)
(* The Manager is driven by one sequential caller.  Every call of the EC2  *)
(* API or of the SSH client is a step whose outcome the environment        *)
(* chooses, so a handler is a short chain of steps: enter, one step per    *)
(* loop iteration, exit.  pc is the caller's position in the code.         *)
(***************************************************************************)
EXTENDS Integers, Sequences, FiniteSets

\* ---- bounds of the model ------------------------------------------------
MaxJobs == 2          \* Job structs hydrated by JobFromRecord
MaxCapacity == 2      \* largest Record.Capacity
MaxInst == 2          \* instance limit of the EC2 account: RunInstances fails beyond it
MaxCmds == 2          \* longest command list handed to runCommands

MaxTries == 5         \* max of the SSH retry loop of runCommand
Cmds == {"c1", "c2"}  \* command strings

JobIds == 1..MaxJobs  \* Record.Id values; job ids are unique

VARIABLES
    job,        \* the Job structs, in allocation order: [Id, Capacity, Workers]
    Jobs,       \* man.Jobs: job id -> index of the registered Job struct
    instances,  \* EC2: instance id (1..Len) -> "running" | "pending" | "terminated"
    pc,         \* position of the caller
    cur,        \* the *Job argument of the running StartJob / StopJob
    i,          \* loop counter of StartJob
    todo,       \* workers the range loop of StopJob has not visited yet
    errors,     \* var errors []string of the running StartJob / StopJob
    outcomes,   \* history: result of every createWorker / stopWorker call of the running handler
    worker,     \* the *Worker argument of the running runCommands
    commands,   \* the commands argument of the running runCommands
    k,          \* position of the range loop of runCommands in commands
    try,        \* try of the retry loop of the running runCommand
    conn,       \* conn of the running runCommand: "nil" | "open" | "closed"
    session,    \* session of the running runCommand: "nil" | "open" | "closed"
    dials,      \* history: result of every ssh.Dial of the running runCommand
    ran,        \* history: command and error of every runCommand the running runCommands made
    setup,      \* history: how the steps before the retry loop of the running runCommand went
    call,       \* history: what the running handler was called on
    ret,        \* what the handler that has just finished returns to the caller
    prev,       \* history: summary of the last call the caller got back
    g,          \* concurrent callers: goroutine -> frame of its StartJob / StopJob
    inmap,      \* goroutines inside a write of man.Jobs (mapassign / mapdelete)
    raced       \* history: two goroutines were inside a write of man.Jobs at once

runVars == <<worker, commands, k, try, conn, session, dials, ran, setup>>
goVars == <<g, inmap, raced>>
vars == <<job, Jobs, instances, pc, cur, i, todo, errors, outcomes, call, ret, prev,
          worker, commands, k, try, conn, session, dials, ran, setup, g, inmap, raced>>

\* ---- values -------------------------------------------------------------
Nil == [nil |-> TRUE, text |-> <<>>]
\* An error string: its text and, as history, the call it came from (the
\* iteration of StartJob, the worker of StopJob).
Msg(text, at) == [msg |-> text, at |-> at]
Sep == Msg("; ", -1)
NoCall == [op |-> "none", job |-> 0, workers0 |-> {}, registered0 |-> FALSE]
NoRet == [op |-> "none", job |-> 0, err |-> Nil]
NoPrev == [op |-> "none", job |-> 0, nil |-> TRUE, registered |-> FALSE]

\* the goroutines that call the Manager at the same time (the handlers of
\* the HTTP server), and the frame of one that has not called yet
Goroutines == {1, 2}
NoFrame == [op |-> "none", job |-> 0, pc |-> "idle", i |-> 0, todo |-> {}, errors |-> <<>>]

\* strings.Join(elems, sep): the elements with sep between neighbours
RECURSIVE Join(_, _)
Join(elems, sep) ==
    IF Len(elems) = 0 THEN <<>>
    ELSE IF Len(elems) = 1 THEN <<elems[1]>>
    ELSE <<elems[1], sep>> \o Join(Tail(elems), sep)

\* fmt.Errorf(strings.Join(errors, "; "))
Errorf_FirstOnly(errs) == [nil |-> FALSE, text |-> <<errs[1]>>]
Errorf(errs) == [nil |-> FALSE, text |-> Join(errs, Sep)]

\* the messages an aggregate error reports, in order
IsMessage(t) == t # Sep
Messages(err) == SelectSeq(err.text, IsMessage)

\* the Job struct registered under some id
Registered(j) == \E id \in DOMAIN Jobs : Jobs[id] = j

\* ---- JobFromRecord ------------------------------------------------------
JobFromRecord(id, cap) ==
    /\ UNCHANGED goVars
    /\ pc = "idle"
    /\ Len(job) < MaxJobs
    /\ \A j \in 1..Len(job) : job[j].Id # id
    /\ job' = Append(job, [Id |-> id, Capacity |-> cap, Workers |-> {}])
    /\ UNCHANGED <<Jobs, instances, pc, cur, i, todo, errors, outcomes, call, ret, prev, runVars>>

\* ---- createWorker / stopWorker -----------------------------------------
\* r is the answer of EC2: "RunInstancesError" (no instance), "ready" (the
\* instance came up) or "WaitError" (WaitUntilInstanceRunning gave up; its
\* result is not looked at).
createWorker(insts, r) ==
    IF r = "RunInstancesError"
    THEN [err |-> TRUE, msg |-> r, Id |-> 0, insts |-> insts]
    ELSE [err |-> FALSE, msg |-> "", Id |-> Len(insts) + 1,
          insts |-> Append(insts, IF r = "ready" THEN "running" ELSE "pending")]

CreateAnswers(insts) ==
    {"RunInstancesError"} \cup
    (IF Len(insts) < MaxInst THEN {"ready", "WaitError"} ELSE {})

\* r is the answer of TerminateInstances: "ok", or the error it returned.
stopWorker(insts, w, r) ==
    IF r = "ok"
    THEN [err |-> FALSE, msg |-> "", insts |-> [insts EXCEPT ![w] = "terminated"]]
    ELSE [err |-> TRUE, msg |-> r, insts |-> insts]

\* EC2 answers InvalidInstanceID.NotFound only for an instance that is gone
TerminateAnswers(insts, w) ==
    {"ok", "RequestError"} \cup
    (IF insts[w] = "terminated" THEN {"InvalidInstanceID.NotFound"} ELSE {})

\* ---- StartJob -----------------------------------------------------------
StartJobEnter(j) ==
    /\ UNCHANGED goVars
    /\ pc = "idle"
    /\ j \in 1..Len(job)
    /\ pc' = "StartJob_loop"
    /\ cur' = j
    /\ i' = 0
    /\ errors' = <<>>
    /\ outcomes' = <<>>
    /\ call' = [op |-> "StartJob", job |-> j, workers0 |-> job[j].Workers,
                registered0 |-> Registered(j)]
    /\ UNCHANGED <<job, Jobs, instances, todo, ret, prev, runVars>>

\* for i := 0; i < job.Capacity; i++
StartJobLoopGuard_AbortOnError == i < job[cur].Capacity /\ Len(errors) = 0
StartJobLoopGuard_OffByOne == i <= job[cur].Capacity
StartJobLoopGuard == i < job[cur].Capacity

\* job.Workers[worker.Id] = worker
InsertWorker_Replace(ws, id) == {id}
InsertWorker(ws, id) == ws \cup {id}

StartJobIter ==
    /\ UNCHANGED goVars
    /\ pc = "StartJob_loop"
    /\ StartJobLoopGuard
    /\ \E r \in CreateAnswers(instances) :
        LET res == createWorker(instances, r) IN
        /\ instances' = res.insts
        /\ IF res.err
           THEN /\ errors' = Append(errors, Msg(res.msg, i))
                /\ job' = job
           ELSE /\ errors' = errors
                /\ job' = [job EXCEPT ![cur].Workers = InsertWorker(@, res.Id)]
        /\ outcomes' = Append(outcomes, [err |-> res.err, w |-> res.Id])
    /\ i' = i + 1
    /\ UNCHANGED <<Jobs, pc, cur, todo, call, ret, prev, runVars>>

\* if len(errors) > 0
StartJobFailed_Never == FALSE
StartJobFailed == Len(errors) > 0

\* man.Jobs[job.Id] = job
StartJobRegister_Forgotten(reg, j) == reg
StartJobRegister(reg, j) == [id \in DOMAIN reg \cup {job[j].Id} |->
                                IF id = job[j].Id THEN j ELSE reg[id]]

StartJobExit ==
    /\ UNCHANGED goVars
    /\ pc = "StartJob_loop"
    /\ ~StartJobLoopGuard
    /\ IF StartJobFailed
       THEN /\ Jobs' = Jobs
            /\ ret' = [op |-> "StartJob", job |-> cur, err |-> Errorf(errors)]
       ELSE /\ Jobs' = StartJobRegister(Jobs, cur)
            /\ ret' = [op |-> "StartJob", job |-> cur, err |-> Nil]
    /\ pc' = "returned"
    /\ UNCHANGED <<job, instances, cur, i, todo, errors, outcomes, call, prev, runVars>>

\* ---- StopJob ------------------------------------------------------------
StopJobEnter(j) ==
    /\ UNCHANGED goVars
    /\ pc = "idle"
    /\ j \in 1..Len(job)
    /\ pc' = "StopJob_loop"
    /\ cur' = j
    /\ todo' = job[j].Workers
    /\ errors' = <<>>
    /\ outcomes' = <<>>
    /\ call' = [op |-> "StopJob", job |-> j, workers0 |-> job[j].Workers,
                registered0 |-> Registered(j)]
    /\ UNCHANGED <<job, Jobs, instances, i, ret, prev, runVars>>

\* for _, v := range job.Workers
StopJobLoopGuard_AbortOnError == todo # {} /\ Len(errors) = 0
StopJobLoopGuard == todo # {}

StopJobIter ==
    /\ UNCHANGED goVars
    /\ pc = "StopJob_loop"
    /\ StopJobLoopGuard
    /\ \E w \in todo :
        /\ todo' = todo \ {w}
        /\ \E r \in TerminateAnswers(instances, w) :
            LET res == stopWorker(instances, w, r) IN
            /\ instances' = res.insts
            /\ errors' = IF res.err THEN Append(errors, Msg(res.msg, w)) ELSE errors
            /\ outcomes' = Append(outcomes, [err |-> res.err, w |-> w])
    /\ UNCHANGED <<job, Jobs, pc, cur, i, call, ret, prev, runVars>>

\* delete(man.Jobs, job.Id)
StopJobDelete_All(reg, j) == <<>>
StopJobDelete(reg, j) == [id \in DOMAIN reg \ {job[j].Id} |-> reg[id]]

StopJobExit ==
    /\ UNCHANGED goVars
    /\ pc = "StopJob_loop"
    /\ ~StopJobLoopGuard
    /\ IF Len(errors) > 0
       THEN /\ Jobs' = Jobs
            /\ ret' = [op |-> "StopJob", job |-> cur, err |-> Errorf(errors)]
       ELSE /\ Jobs' = StopJobDelete(Jobs, cur)
            /\ ret' = [op |-> "StopJob", job |-> cur, err |-> Nil]
    /\ pc' = "returned"
    /\ UNCHANGED <<job, instances, cur, i, todo, errors, outcomes, call, prev, runVars>>

\* ---- runCommands / runCommand ------------------------------------------
\* every Worker struct some Job holds
AllWorkers == UNION {job[j].Workers : j \in 1..Len(job)}

\* the command lists of at most MaxCmds commands
CmdLists == UNION {[1..n -> Cmds] : n \in 0..MaxCmds}

Error(msg) == [nil |-> FALSE, text |-> <<Msg(msg, 0)>>]

runCommandsEnter(w, cmds) ==
    /\ UNCHANGED goVars
    /\ pc = "idle"
    /\ w \in AllWorkers
    /\ pc' = "runCommands_loop"
    /\ worker' = w
    /\ commands' = cmds
    /\ k' = 1
    /\ ran' = <<>>
    /\ call' = [op |-> "runCommands", job |-> 0, workers0 |-> {}, registered0 |-> FALSE]
    /\ UNCHANGED <<job, Jobs, instances, cur, i, todo, errors, outcomes, ret, prev,
                   try, conn, session, dials, setup>>

\* runCommands, on the result of runCommand for commands[k]: "if err != nil
\* { return err }", else the next command
runCommandsFailFast_Continue(e) == FALSE
runCommandsFailFast(e) == ~e.nil

runCommandReturn(e) ==
    /\ ran' = Append(ran, [cmd |-> commands[k], err |-> e])
    /\ IF runCommandsFailFast(e)
       THEN /\ pc' = "returned"
            /\ ret' = [op |-> "runCommands", job |-> 0, err |-> e]
            /\ k' = k
       ELSE /\ pc' = "runCommands_loop"
            /\ ret' = ret
            /\ k' = k + 1

\* what stands between the entry of runCommand and its retry loop:
\* getWorkerInstance, ioutil.ReadFile, ssh.ParsePrivateKey
SetupAnswers == {"ok", "DescribeInstancesError", "Could not find running instance.",
                 "ReadFileError", "ParsePrivateKeyError"}

\* the answers of DescribeInstances with which getWorkerInstance returns an error
DescribeFailures == {"DescribeInstancesError", "Could not find running instance."}

\* "if err != nil { return nil, err }" after each of the three steps
SetupFailed_NotFoundIgnored(a) == a \notin {"ok", "Could not find running instance."}
SetupFailed(a) == a # "ok"

\* one pass of the range loop of runCommands: the call of runCommand for
\* commands[k], up to its retry loop
runCommandEnter ==
    /\ UNCHANGED goVars
    /\ pc = "runCommands_loop"
    /\ k <= Len(commands)
    /\ conn' = "nil"
    /\ session' = "nil"
    /\ dials' = <<>>
    /\ \E a \in SetupAnswers :
        /\ setup' = a
        /\ IF SetupFailed(a)
           THEN /\ try' = 0
                /\ runCommandReturn(Error(a))
           ELSE /\ try' = 1
                /\ pc' = "runCommand_dial"
                /\ UNCHANGED <<ran, ret, k>>
    /\ UNCHANGED <<job, Jobs, instances, cur, i, todo, errors, outcomes, call, prev,
                   worker, commands>>

\* for conn == nil && try <= max
runCommandRetryGuard_OffByOne == conn = "nil" /\ try < MaxTries
runCommandRetryGuard == conn = "nil" /\ try <= MaxTries

runCommandDial ==
    /\ UNCHANGED goVars
    /\ pc = "runCommand_dial"
    /\ runCommandRetryGuard
    /\ \E ok \in BOOLEAN :
        /\ conn' = IF ok THEN "open" ELSE "nil"
        /\ dials' = Append(dials, ok)
    /\ try' = try + 1
    /\ UNCHANGED <<job, Jobs, instances, pc, cur, i, todo, errors, outcomes, call, ret, prev,
                   worker, commands, k, session, ran, setup>>

\* the deferred conn.Close() / session.Close(), run when runCommand returns
deferredClose_Skipped(c) == c
deferredClose(c) == IF c = "open" THEN "closed" ELSE c

\* defer conn.Close(); conn.NewSession(): with conn == nil the call
\* dereferences a nil *ssh.Client and the goroutine panics
runCommandSession ==
    /\ UNCHANGED goVars
    /\ pc = "runCommand_dial"
    /\ ~runCommandRetryGuard
    /\ IF conn = "nil"
       THEN /\ pc' = "panic"
            /\ UNCHANGED <<conn, session, ran, ret, k>>
       ELSE \E ok \in BOOLEAN :
            IF ok
            THEN /\ session' = "open"
                 /\ pc' = "runCommand_run"
                 /\ UNCHANGED <<conn, ran, ret, k>>
            ELSE /\ conn' = deferredClose(conn)
                 /\ session' = session
                 /\ runCommandReturn(Error("NewSessionError"))
    /\ UNCHANGED <<job, Jobs, instances, cur, i, todo, errors, outcomes, call, prev,
                   worker, commands, try, dials, setup>>

\* session.Run(cmd), then the deferred session.Close() and conn.Close()
runCommandRun ==
    /\ UNCHANGED goVars
    /\ pc = "runCommand_run"
    /\ session' = deferredClose(session)
    /\ conn' = deferredClose(conn)
    /\ \E ok \in BOOLEAN : runCommandReturn(IF ok THEN Nil ELSE Error("RunError"))
    /\ UNCHANGED <<job, Jobs, instances, cur, i, todo, errors, outcomes, call, prev,
                   worker, commands, try, dials, setup>>

runCommandsExit ==
    /\ UNCHANGED goVars
    /\ pc = "runCommands_loop"
    /\ k > Len(commands)
    /\ pc' = "returned"
    /\ ret' = [op |-> "runCommands", job |-> 0, err |-> Nil]
    /\ UNCHANGED <<job, Jobs, instances, cur, i, todo, errors, outcomes, call, prev, runVars>>

\* ---- the caller takes the result ---------------------------------------
\* The frame of the finished handler is gone; the caller remembers which call
\* it made last, whether it failed and whether the job id was registered then.
Return ==
    /\ UNCHANGED goVars
    /\ pc = "returned"
    /\ prev' = [op |-> ret.op, job |-> ret.job, nil |-> ret.err.nil,
                registered |-> ret.job # 0 /\ job[ret.job].Id \in DOMAIN Jobs]
    /\ pc' = "idle"
    /\ cur' = 0
    /\ i' = 0
    /\ todo' = {}
    /\ errors' = <<>>
    /\ outcomes' = <<>>
    /\ call' = NoCall
    /\ ret' = NoRet
    /\ worker' = 0
    /\ commands' = <<>>
    /\ k' = 0
    /\ try' = 0
    /\ conn' = "nil"
    /\ session' = "nil"
    /\ dials' = <<>>
    /\ ran' = <<>>
    /\ setup' = ""
    /\ UNCHANGED <<job, Jobs, instances>>

\* ---- specification ------------------------------------------------------
Init ==
    /\ job = <<>>
    /\ Jobs = <<>>
    /\ instances = <<>>
    /\ pc = "idle"
    /\ cur = 0
    /\ i = 0
    /\ todo = {}
    /\ errors = <<>>
    /\ outcomes = <<>>
    /\ call = NoCall
    /\ ret = NoRet
    /\ prev = NoPrev
    /\ worker = 0
    /\ commands = <<>>
    /\ k = 0
    /\ try = 0
    /\ conn = "nil"
    /\ session = "nil"
    /\ dials = <<>>
    /\ ran = <<>>
    /\ setup = ""
    /\ g = [t \in Goroutines |-> NoFrame]
    /\ inmap = {}
    /\ raced = FALSE

Next ==
    \/ \E id \in JobIds, cap \in 0..MaxCapacity : JobFromRecord(id, cap)
    \/ \E j \in 1..MaxJobs : StartJobEnter(j)
    \/ StartJobIter
    \/ StartJobExit
    \/ \E j \in 1..MaxJobs : StopJobEnter(j)
    \/ StopJobIter
    \/ StopJobExit
    \/ Return

Spec == Init /\ [][Next]_vars

\* Remote execution on a started fleet.  InitRun is the Manager after two
\* JobFromRecord and a StartJob of job 1 whose n creations all succeeded (a
\* state of Spec): job 1 is registered and holds the workers 1..n, job 2 is
\* not started.  From there jobs are started and stopped and commands are run
\* on the workers.
MinOf(a, b) == IF a <= b THEN a ELSE b

InitRun ==
    /\ \E n \in 1..MinOf(MaxCapacity, MaxInst) :
        /\ \E c2 \in 0..MaxCapacity :
            job = <<[Id |-> 1, Capacity |-> n, Workers |-> 1..n],
                    [Id |-> 2, Capacity |-> c2, Workers |-> {}]>>
        /\ instances \in [1..n -> {"running", "pending"}]
    /\ Jobs = [id \in {1} |-> 1]
    /\ pc = "idle"
    /\ cur = 0
    /\ i = 0
    /\ todo = {}
    /\ errors = <<>>
    /\ outcomes = <<>>
    /\ call = NoCall
    /\ ret = NoRet
    /\ prev = [op |-> "StartJob", job |-> 1, nil |-> TRUE, registered |-> TRUE]
    /\ worker = 0
    /\ commands = <<>>
    /\ k = 0
    /\ try = 0
    /\ conn = "nil"
    /\ session = "nil"
    /\ dials = <<>>
    /\ ran = <<>>
    /\ setup = ""
    /\ g = [t \in Goroutines |-> NoFrame]
    /\ inmap = {}
    /\ raced = FALSE

NextRun ==
    \/ \E j \in 1..MaxJobs : StartJobEnter(j)
    \/ StartJobIter
    \/ StartJobExit
    \/ \E j \in 1..MaxJobs : StopJobEnter(j)
    \/ StopJobIter
    \/ StopJobExit
    \/ \E w \in 1..MaxInst, cmds \in CmdLists : runCommandsEnter(w, cmds)
    \/ runCommandEnter
    \/ runCommandDial
    \/ runCommandSession
    \/ runCommandRun
    \/ runCommandsExit
    \/ Return

SpecRun == InitRun /\ [][NextRun]_vars

\* ---- StartJob and StopJob called from several goroutines ---------------
\* Manager has no lock: each goroutine runs the code of StartJob / StopJob on
\* its own frame, and the write of man.Jobs (lines 99 and 121) is a call into
\* the map runtime that takes time: goWriteBegin enters it, goWriteEnd leaves
\* it.  Two goroutines inside at once are a data race; Go then either throws
\* "fatal error: concurrent map writes" or completes with one of the writes
\* possibly lost.
SeqVars == <<pc, cur, i, todo, errors, outcomes, call, ret, prev, runVars>>

goEnter(t, op, j) ==
    /\ g[t].pc = "idle"
    /\ j \in 1..Len(job)
    /\ \A u \in Goroutines : g[u].job # j
    /\ g' = [g EXCEPT ![t] = [op |-> op, job |-> j, pc |-> "loop", i |-> 0,
                              todo |-> IF op = "StopJob" THEN job[j].Workers ELSE {},
                              errors |-> <<>>]]
    /\ UNCHANGED <<job, Jobs, instances, inmap, raced, SeqVars>>

goStartJobLoopGuard(t) == g[t].i < job[g[t].job].Capacity

goStartJobIter(t) ==
    /\ g[t].pc = "loop"
    /\ g[t].op = "StartJob"
    /\ goStartJobLoopGuard(t)
    /\ \E r \in CreateAnswers(instances) :
        LET res == createWorker(instances, r) IN
        /\ instances' = res.insts
        /\ IF res.err
           THEN /\ g' = [g EXCEPT ![t].errors = Append(@, Msg(res.msg, g[t].i)),
                                  ![t].i = @ + 1]
                /\ job' = job
           ELSE /\ g' = [g EXCEPT ![t].i = @ + 1]
                /\ job' = [job EXCEPT ![g[t].job].Workers = InsertWorker(@, res.Id)]
    /\ UNCHANGED <<Jobs, inmap, raced, SeqVars>>

goStopJobIter(t) ==
    /\ g[t].pc = "loop"
    /\ g[t].op = "StopJob"
    /\ \E w \in g[t].todo :
        \E r \in TerminateAnswers(instances, w) :
            LET res == stopWorker(instances, w, r) IN
            /\ instances' = res.insts
            /\ g' = [g EXCEPT ![t].todo = @ \ {w},
                              ![t].errors = IF res.err THEN Append(@, Msg(res.msg, w)) ELSE @]
    /\ UNCHANGED <<job, Jobs, inmap, raced, SeqVars>>

goLoopDone(t) ==
    /\ g[t].pc = "loop"
    /\ IF g[t].op = "StartJob" THEN ~goStartJobLoopGuard(t) ELSE g[t].todo = {}

\* if len(errors) > 0 { return ... }
goReturnError(t) ==
    /\ goLoopDone(t)
    /\ Len(g[t].errors) > 0
    /\ g' = [g EXCEPT ![t].pc = "done"]
    /\ UNCHANGED <<job, Jobs, instances, inmap, raced, SeqVars>>

\* man.Jobs[job.Id] = job / delete(man.Jobs, job.Id): the write begins
goWriteBegin(t) ==
    /\ goLoopDone(t)
    /\ Len(g[t].errors) = 0
    /\ g' = [g EXCEPT ![t].pc = "write"]
    /\ inmap' = inmap \cup {t}
    /\ raced' = (raced \/ inmap # {})
    /\ UNCHANGED <<job, Jobs, instances, SeqVars>>

goWrite(t) ==
    IF g[t].op = "StartJob" THEN StartJobRegister(Jobs, g[t].job)
    ELSE StopJobDelete(Jobs, g[t].job)

\* the write ends and the handler returns nil; after a race the write may be
\* lost, or the runtime has detected the race and kills the process
goWriteEnd(t) ==
    /\ g[t].pc = "write"
    /\ inmap' = inmap \ {t}
    /\ \/ /\ Jobs' = goWrite(t)
          /\ g' = [g EXCEPT ![t].pc = "done"]
       \/ /\ raced
          /\ Jobs' = Jobs
          /\ g' = [g EXCEPT ![t].pc = "done"]
       \/ /\ raced
          /\ Jobs' = Jobs
          /\ g' = [u \in Goroutines |-> [g[u] EXCEPT !.pc = "fatal"]]
    /\ UNCHANGED <<job, instances, raced, SeqVars>>

\* InitConc is the Manager after two JobFromRecord and a StartJob of job 2
\* whose c2 creations all succeeded (a state of Spec): job 1 is not started,
\* job 2 is registered.
InitConc ==
    /\ \E c1 \in 0..MaxCapacity, c2 \in 0..MinOf(MaxCapacity, MaxInst) :
        /\ job = <<[Id |-> 1, Capacity |-> c1, Workers |-> {}],
                   [Id |-> 2, Capacity |-> c2, Workers |-> 1..c2]>>
        /\ instances = [w \in 1..c2 |-> "running"]
    /\ Jobs = [id \in {2} |-> 2]
    /\ pc = "idle"
    /\ cur = 0
    /\ i = 0
    /\ todo = {}
    /\ errors = <<>>
    /\ outcomes = <<>>
    /\ call = NoCall
    /\ ret = NoRet
    /\ prev = [op |-> "StartJob", job |-> 2, nil |-> TRUE, registered |-> TRUE]
    /\ worker = 0
    /\ commands = <<>>
    /\ k = 0
    /\ try = 0
    /\ conn = "nil"
    /\ session = "nil"
    /\ dials = <<>>
    /\ ran = <<>>
    /\ setup = ""
    /\ g = [t \in Goroutines |-> NoFrame]
    /\ inmap = {}
    /\ raced = FALSE

NextConc ==
    \/ \E t \in Goroutines, op \in {"StartJob", "StopJob"}, j \in 1..MaxJobs : goEnter(t, op, j)
    \/ \E t \in Goroutines : goStartJobIter(t)
    \/ \E t \in Goroutines : goStopJobIter(t)
    \/ \E t \in Goroutines : goReturnError(t)
    \/ \E t \in Goroutines : goWriteBegin(t)
    \/ \E t \in Goroutines : goWriteEnd(t)

SpecConc == InitConc /\ [][NextConc]_vars

TypeOK ==
    /\ pc \in {"idle", "StartJob_loop", "StopJob_loop", "runCommands_loop",
              "runCommand_dial", "runCommand_run", "returned", "panic"}
    /\ Len(job) <= MaxJobs
    /\ Len(instances) <= MaxInst
\* ---- properties ---------------------------------------------------------
StartJobReturned == pc = "returned" /\ ret.op = "StartJob"
StopJobReturned == pc = "returned" /\ ret.op = "StopJob"
runCommandsReturned == pc = "returned" /\ ret.op = "runCommands"

\* the calls of the running handler that failed / succeeded, in order
IsFailure(o) == o.err
IsSuccess(o) == ~o.err
Failures == SelectSeq(outcomes, IsFailure)
Successes == SelectSeq(outcomes, IsSuccess)

\* C1: when StartJob returns it has called createWorker exactly Capacity
\* times, whatever creations failed; while it runs, iteration i has made
\* exactly i calls.
C1_AllCreationsAttempted ==
    /\ pc = "StartJob_loop" => Len(outcomes) = i /\ i <= job[cur].Capacity
    /\ StartJobReturned => Len(outcomes) = job[cur].Capacity

C1_Witness ==
    /\ StartJobReturned
    /\ job[cur].Capacity = 2
    /\ outcomes[1].err
    /\ ~outcomes[2].err

\* C2: a StartJob called with an empty worker map in which k >= 1 of the N
\* creations failed returns a non-nil error, leaves the job out of the
\* registry, and leaves in the worker map exactly the N - k workers created.
C2_PartialFailure ==
    (StartJobReturned /\ call.workers0 = {} /\ Len(Failures) >= 1) =>
        /\ ~ret.err.nil
        /\ job[cur].Id \notin DOMAIN Jobs
        /\ ~Registered(cur)
        /\ job[cur].Workers = {Successes[n].w : n \in 1..Len(Successes)}
        /\ Cardinality(job[cur].Workers) = job[cur].Capacity - Len(Failures)

C2_Witness ==
    /\ StartJobReturned
    /\ call.workers0 = {}
    /\ job[cur].Capacity = 2
    /\ Len(Failures) = 1
    /\ Cardinality(job[cur].Workers) = 1

\* C3: the error StartJob returns holds one message per failed creation, in
\* the order of the failures: k failures, k messages.
C3_EveryFailureReported ==
    StartJobReturned =>
        /\ Len(Messages(ret.err)) = Len(Failures)
        /\ \A n \in 1..Len(Failures) :
              Messages(ret.err)[n].msg = "RunInstancesError"
        /\ \A n \in 1..Len(outcomes) :
              outcomes[n].err <=> \E m \in 1..Len(Messages(ret.err)) :
                                      Messages(ret.err)[m].at = n - 1

C3_Witness ==
    /\ StartJobReturned
    /\ Len(Failures) = 2
    /\ Len(Messages(ret.err)) = 2

\* C4: a StartJob called with an empty worker map whose N creations all
\* succeeded returns nil, the registry maps the job's id to the job, and the
\* worker map holds N workers.
C4_FullSuccess ==
    (StartJobReturned /\ call.workers0 = {} /\ Len(Failures) = 0) =>
        /\ ret.err.nil
        /\ job[cur].Id \in DOMAIN Jobs
        /\ Jobs[job[cur].Id] = cur
        /\ Cardinality(job[cur].Workers) = job[cur].Capacity

C4_Witness ==
    /\ StartJobReturned
    /\ call.workers0 = {}
    /\ Len(Failures) = 0
    /\ job[cur].Capacity = 2
    /\ job[cur].Id # cur

\* C5: StartJob on a job of capacity 0 returns nil without one createWorker
\* call and without a new instance, registers the job, and leaves the worker
\* map empty.
C5_ZeroCapacity ==
    /\ (pc = "StartJob_loop" /\ job[cur].Capacity = 0) => Len(outcomes) = 0
    /\ (StartJobReturned /\ job[cur].Capacity = 0) =>
        /\ ret.err.nil
        /\ Len(outcomes) = 0
        /\ job[cur].Id \in DOMAIN Jobs
        /\ Jobs[job[cur].Id] = cur
        /\ job[cur].Workers = {}

C5_Witness ==
    /\ StartJobReturned
    /\ job[cur].Capacity = 0
    /\ Len(instances) > 0

\* C6: when StopJob returns, the job's id is not in the registry, whether or
\* not a termination failed.
C6_StopJobUnregisters ==
    StopJobReturned => job[cur].Id \notin DOMAIN Jobs

\* C7: when StopJob returns it has called stopWorker once for every worker of
\* the worker map, and the error it returns holds one message per failed
\* termination (nil when none failed).
C7_EveryWorkerStopped ==
    StopJobReturned =>
        /\ {outcomes[n].w : n \in 1..Len(outcomes)} = call.workers0
        /\ Len(outcomes) = Cardinality(call.workers0)
        /\ ret.err.nil <=> Len(Failures) = 0
        /\ Len(Messages(ret.err)) = Len(Failures)
        /\ \A n \in 1..Len(Failures) : Messages(ret.err)[n].at = Failures[n].w

C7_Witness ==
    /\ StopJobReturned
    /\ Cardinality(call.workers0) = 2
    /\ Len(outcomes) = 2
    /\ outcomes[1].err
    /\ Len(Messages(ret.err)) = 2

\* C8: in a StopJob that follows a StopJob on the same job, no termination of
\* an already terminated instance is recorded as an error, and once it has
\* returned the job's id was not in the registry after the first call and is
\* not in it after the second.
GoneMessages(errs) == SelectSeq(errs, LAMBDA m : m.msg = "InvalidInstanceID.NotFound")

C8_StopJobTwice ==
    (call.op = "StopJob" /\ prev.op = "StopJob" /\ prev.job = cur) =>
        /\ Len(GoneMessages(errors)) = 0
        /\ pc = "returned" =>
            /\ ~prev.registered
            /\ job[cur].Id \notin DOMAIN Jobs

\* C9: runCommands runs the commands in list order, runs nothing after a
\* command that failed, returns the error of that command, and returns nil
\* only when every command of the list ran without error.
C9_InOrderFailFast ==
    call.op = "runCommands" =>
        /\ Len(ran) <= Len(commands)
        /\ \A n \in 1..Len(ran) : ran[n].cmd = commands[n]
        /\ \A n \in 1..(Len(ran) - 1) : ran[n].err.nil
        /\ runCommandsReturned =>
            IF ret.err.nil
            THEN /\ Len(ran) = Len(commands)
                 /\ \A n \in 1..Len(ran) : ran[n].err.nil
            ELSE /\ Len(ran) >= 1
                 /\ ran[Len(ran)].err = ret.err

C9_Witness ==
    /\ runCommandsReturned
    /\ commands = <<"c1", "c2">>
    /\ Len(ran) = 1
    /\ ret.err = Error("RunError")

\* C10: one runCommand makes at most MaxTries connection attempts, none after
\* an attempt that succeeded, and exactly MaxTries when every attempt failed.
C10_RetryBound ==
    /\ Len(dials) <= MaxTries
    /\ \A n \in 1..(Len(dials) - 1) : ~dials[n]
    /\ pc = "runCommand_dial" => Len(dials) = try - 1
    /\ (conn = "nil" /\ (pc = "panic" \/ (pc = "runCommand_dial" /\ try > MaxTries)))
          => Len(dials) = MaxTries

C10_Witness ==
    /\ pc = "panic"
    /\ Len(dials) = MaxTries
    /\ \A n \in 1..Len(dials) : ~dials[n]

\* C11: when the retry loop of runCommand is left with every attempt failed,
\* runCommand returns an error to runCommands: no session is opened, no
\* command is run and the goroutine does not panic.
ConnectionExhausted ==
    /\ conn = "nil"
    /\ Len(dials) = MaxTries
    /\ pc # "runCommand_dial"

C11_ExhaustedReturnsError ==
    ConnectionExhausted =>
        /\ pc # "panic"
        /\ session = "nil"
        /\ runCommandsReturned
        /\ ~ret.err.nil

\* C12: between calls, every job in the registry has only workers whose
\* instance has not been terminated.
BetweenCalls == pc \in {"idle", "returned"}

C12_RegisteredJobsAreBacked ==
    BetweenCalls =>
        \A id \in DOMAIN Jobs :
            \A w \in job[Jobs[id]].Workers : instances[w] # "terminated"

\* C13: a worker map never holds more workers than the capacity of its job.
C13_WorkersWithinCapacity ==
    \A j \in 1..Len(job) : Cardinality(job[j].Workers) <= job[j].Capacity

\* C14: goroutines that call StartJob / StopJob for different job ids are
\* never inside a write of the registry at the same time, and when all have
\* returned the registry is what the calls give one after another: a job
\* whose StartJob returned nil is registered, one whose StopJob returned nil
\* is not, the others are as before.
AllDone == \A t \in Goroutines : g[t].pc = "done"

SerialRegistry(id) ==
    IF \E t \in Goroutines : g[t].job # 0 /\ job[g[t].job].Id = id /\ Len(g[t].errors) = 0
    THEN LET t == CHOOSE u \in Goroutines :
                    g[u].job # 0 /\ job[g[u].job].Id = id /\ Len(g[u].errors) = 0
         IN  g[t].op = "StartJob"
    ELSE id \in {2}   \* as in InitConc

StartAndStop == {g[t].op : t \in Goroutines} = {"StartJob", "StopJob"}

C14_NoRegistryRace ==
    StartAndStop =>
        /\ Cardinality(inmap) <= 1
        /\ \A t \in Goroutines : g[t].pc # "fatal"
        /\ AllDone => \A id \in JobIds : (id \in DOMAIN Jobs) <=> SerialRegistry(id)

\* C15: a creation whose wait for the running state failed counts as failed:
\* a createWorker call of StartJob that returned a Worker left its instance
\* running.
C15_WaitFailureIsFailure ==
    call.op = "StartJob" =>
        \A n \in 1..Len(outcomes) :
            ~outcomes[n].err => instances[outcomes[n].w] = "running"

\* C16: between calls, no worker map of any job holds a worker whose
\* instance has been terminated.
C16_WorkersAreBacked ==
    BetweenCalls =>
        \A j \in 1..Len(job) :
            \A w \in job[j].Workers : instances[w] # "terminated"

\* C17: outside the retry loop and the run of the command, that is once
\* runCommand has returned or given up, no connection and no session is open;
\* a session is open only on an open connection.
C17_ResourcesReleased ==
    /\ pc \notin {"runCommand_dial", "runCommand_run"} =>
          conn # "open" /\ session # "open"
    /\ session = "open" => conn = "open"

C17_Witness ==
    /\ runCommandsReturned
    /\ ret.err = Error("NewSessionError")
    /\ dials[Len(dials)]
    /\ conn = "closed"
    /\ session = "nil"

\* C18: a connection is attempted only after the instance of the worker was
\* resolved; when DescribeInstances fails or matches no instance, runCommand
\* returns that error with no connection attempt, no session and no command
\* run.
C18_ResolveFirst ==
    /\ Len(dials) > 0 => setup = "ok"
    /\ conn # "nil" => setup = "ok"
    /\ setup \in DescribeFailures =>
        /\ runCommandsReturned
        /\ ret.err = Error(setup)
        /\ ran[Len(ran)].err = Error(setup)
        /\ Len(dials) = 0
        /\ conn = "nil"
        /\ session = "nil"

C18_Witness ==
    /\ runCommandsReturned
    /\ setup = "Could not find running instance."
    /\ Len(ran) = 2
    /\ Len(dials) = 0

\* C19: a step adds a job id to the registry only if it is the exit of a
\* StartJob on that job which returns nil, removes one only if it is the exit
\* of a StopJob on that job, and never changes the entry of an id that stays:
\* the steps of createWorker, stopWorker, runCommands and runCommand, and the
\* calls on other jobs, leave an entry as it is.
RegistryStep ==
    \A id \in JobIds :
        /\ (id \notin DOMAIN Jobs /\ id \in DOMAIN Jobs') =>
              /\ pc = "StartJob_loop" /\ pc' = "returned"
              /\ job[cur].Id = id
              /\ ret'.op = "StartJob" /\ ret'.err.nil
              /\ Jobs'[id] = cur
        /\ (id \in DOMAIN Jobs /\ id \notin DOMAIN Jobs') =>
              /\ pc = "StopJob_loop" /\ pc' = "returned"
              /\ job[cur].Id = id
              /\ ret'.op = "StopJob"
        /\ (id \in DOMAIN Jobs /\ id \in DOMAIN Jobs') => Jobs'[id] = Jobs[id]

C19_RegistryFrame == [][RegistryStep]_vars

C19_Witness ==
    /\ StartJobReturned
    /\ cur = 2
    /\ ret.err.nil
    /\ DOMAIN Jobs = {1, 2}
    /\ prev.op = "runCommands"

\* C20: StartJob takes nothing back: while it runs no instance changes its
\* state, and every worker it has created, like every worker the map held
\* before, is in the worker map with an instance that is not terminated by it.
NoRollbackStep ==
    (call.op = "StartJob" /\ call'.op = "StartJob") =>
        /\ \A w \in DOMAIN instances : instances'[w] = instances[w]
        /\ job[cur].Workers \subseteq job'[cur].Workers

NoRollbackState ==
    call.op = "StartJob" =>
        /\ call.workers0 \subseteq job[cur].Workers
        /\ \A n \in 1..Len(outcomes) :
              ~outcomes[n].err =>
                  /\ outcomes[n].w \in job[cur].Workers
                  /\ instances[outcomes[n].w] # "terminated"

C20_NoRollback == [][NoRollbackStep]_vars /\ []NoRollbackState

C20_Witness ==
    /\ StartJobReturned
    /\ ~ret.err.nil
    /\ Len(outcomes) = 2
    /\ ~outcomes[1].err
    /\ outcomes[2].err
    /\ outcomes[1].w \in job[cur].Workers
    /\ instances[outcomes[1].w] = "running"
====
